---------------------------- MODULE Spec2Model ----------------------------
(***************************************************************************)
(* Verification model of the three asset-preparation scripts:              *)
(*   res/tools/generate-md-icons.py            (icon converter)            *)
(*   assets-nodist/scripts/sample-filenames.py (filename sample renamer)   *)
(*   assets-nodist/scripts/color-generator.py  (color table generator)     *)
(* Each script is a state machine of its own (SpecIcons, SpecRenamer,      *)
(* SpecConvert, SpecColors); the variables of the other scripts stay at    *)
(* their idle values.                                                      *)
(***************************************************************************)
EXTENDS Integers, Sequences, FiniteSets, TLC

VARIABLES
    \* ---- generate-md-icons.py
    argv,       \* sys.argv
    md_dir,     \* md_dir (line 29); "" before it is assigned
    ipc,        \* control point of the script
    iphase,     \* "call": about to execute the statement; "wait": inside subprocess.run
    gi,         \* index of the current group of ICONS.items()
    ni,         \* index of the current name in that group
    si,         \* index of the current symbol of SYMBOLS
    outfile,    \* the script's variable outfile
    log,        \* history: every external command started, with its exit
    ierror,     \* the uncaught exception that ended the script, or "none"
    istatus,    \* exit status of the script: "running", "exit0", "exit1"
    istdout,    \* lines printed
    \* ---- sample-filenames.py
    cwd,        \* the file names in the current directory
    files,      \* files (line 6)
    rpc,        \* control point of the script
    ri,         \* index of the loop over files
    rstdout,    \* lines printed
    rerror,     \* the uncaught exception that ended the script, or "none"
    \* ---- the conversion of lines 11-12 applied to its own result
    stem,       \* a file name without its suffix
    once,       \* the conversion of stem
    twice,      \* the conversion of once
    cpc,        \* "start", "first", "second", "failed"
    \* ---- color-generator.py
    accepted_colors,  \* accepted_colors (line 105)
    gpc,        \* control point of the script
    count,      \* the loop variable count (lines 119 and 127)
    gray,       \* the loop variable hue of line 128
    ac,         \* index of the loop variable ac in accepted_colors
    code,       \* the string code, as the entries appended to it
    gstdout     \* lines printed, each a sequence of tokens

ivars == <<argv, md_dir, ipc, iphase, gi, ni, si, outfile, log, ierror, istatus, istdout>>

rvars == <<cwd, files, rpc, ri, rstdout, rerror>>

cvars == <<stem, once, twice, cpc>>

gvars == <<accepted_colors, gpc, count, gray, ac, code, gstdout>>

vars == <<ivars, rvars, cvars, gvars>>

IdleIcons ==
    /\ argv = <<>> /\ md_dir = "" /\ ipc = "idle" /\ iphase = "call"
    /\ gi = 1 /\ ni = 1 /\ si = 1 /\ outfile = "" /\ log = <<>>
    /\ ierror = "none" /\ istatus = "idle" /\ istdout = <<>>

IdleRenamer ==
    /\ cwd = {} /\ files = <<>> /\ rpc = "idle" /\ ri = 1
    /\ rstdout = <<>> /\ rerror = "none"

IdleConvert ==
    /\ stem = <<>> /\ once = <<>> /\ twice = <<>> /\ cpc = "idle"

IdleColors ==
    /\ accepted_colors = <<>> /\ gpc = "idle" /\ count = 0 /\ gray = 0
    /\ ac = 1 /\ code = <<>> /\ gstdout = <<>>

(***************************************************************************)
(*                      generate-md-icons.py                               *)
(***************************************************************************)

\* ICONS.items(): a dict iterates in insertion order.
ICONS == << [group |-> "av", icons |-> <<"play_arrow", "pause", "stop">>] >>

SYMBOLS == << "add", "audio_file", "file_open", "file_save", "menu", "new_window",
              "play_arrow", "playlist_add_circle", "settings", "stop" >>

\* Command lines the script may be started with: without the positional
\* argument, or with a base directory.
MdDirs == {"md", "/home/u/Downloads/material-design-icons"}

ArgvChoices == {<<"generate-md-icons.py">>} \cup {<<"generate-md-icons.py", d>> : d \in MdDirs}

\* Exit codes an external tool may return.
ExitCodes == {0, 1}

\* At most this many external commands of one run exit non-zero.
MaxFailures == 2

Last(s) == s[Len(s)]

MkdirIconsArgs == <<"mkdir", "-p", "res/images/md-icons">>

MkdirSymbolsArgs == <<"mkdir", "-p", "res/images/md-symbols">>

IconOutfile(name) == "res/images/md-icons/" \o name \o ".png"

\* group and name exchanged in the template
IconSourceSwapped(dir, group, name) ==
    dir \o "/src/" \o name \o "/" \o group \o "/materialicons/24px.svg"

IconSource(dir, group, name) ==
    dir \o "/src/" \o group \o "/" \o name \o "/materialicons/24px.svg"

IconConvertArgs(dir, group, name, out) ==
    <<"convert", IconSource(dir, group, name),
      "-density", "576", "-background", "none", "-negate",
      "-define", "png:exclude-chunks=date,time", out>>

\* The symbols written to the directory of the icons
SymbolOutfileInIconsDir(symbol) == "res/images/md-icons/" \o symbol \o ".png"

SymbolOutfile(symbol) == "res/images/md-symbols/" \o symbol \o ".png"

SymbolSource(dir, symbol) ==
    dir \o "/symbols/web/" \o symbol \o "/materialsymbolssharp/" \o symbol \o "_wght100_24px.svg"

SymbolConvertArgs(dir, symbol, out) ==
    <<"convert", SymbolSource(dir, symbol),
      "-density", "576", "-background", "none",
      "-define", "png:exclude-chunks=date,time", "-negate", out>>

MogrifyArgs(out) == <<"mogrify", "-strip", out>>

NumFailed(l) == Cardinality({k \in 1..Len(l) : l[k].status = "exited" /\ l[k].rc # 0})

Running(l) == {k \in 1..Len(l) : l[k].status = "running"}

\* subprocess.run(args) with the default check=False: the exit code is stored
\* in the CompletedProcess that the script discards; nothing is raised.
Check == FALSE

\* subprocess.run(args, check=True)
CheckedRun(rc) == IF rc # 0 THEN "CalledProcessError" ELSE "none"

CheckReturnCode(rc) == IF Check /\ rc # 0 THEN "CalledProcessError" ELSE "none"

\* subprocess.Popen(args) without wait(): the call returns at once.
PopenReturns(l) == TRUE

\* subprocess.run returns only when the child it started has exited.
RunReturns(l) == l # <<>> /\ Last(l).status = "exited"

InitIcons ==
    /\ argv \in ArgvChoices
    /\ md_dir = ""
    /\ ipc = "argv"
    /\ iphase = "call"
    /\ gi = 1
    /\ ni = 1
    /\ si = 1
    /\ outfile = ""
    /\ log = <<>>
    /\ ierror = "none"
    /\ istatus = "running"
    /\ istdout = <<>>
    /\ IdleRenamer
    /\ IdleConvert
    /\ IdleColors

Raise(exc) ==
    /\ ipc' = "failed"
    /\ ierror' = exc
    /\ istatus' = "exit1"

\* The start of subprocess.run(args): the child is spawned, or the spawn
\* itself raises (the executable is not on PATH).
StartRun(kind, name, args) ==
    \E spawned \in BOOLEAN :
        IF spawned
        THEN /\ log' = Append(log, [kind |-> kind, name |-> name, args |-> args,
                                    status |-> "running", rc |-> 0])
             /\ iphase' = "wait"
             /\ UNCHANGED <<ipc, ierror, istatus>>
        ELSE /\ Raise("FileNotFoundError")
             /\ UNCHANGED <<log, iphase>>

\* Line 29-31: md_dir = sys.argv[1]; print(...)
ReadArgv ==
    /\ ipc = "argv"
    /\ IF Len(argv) < 2
       THEN /\ Raise("IndexError")
            /\ UNCHANGED <<md_dir, istdout>>
       ELSE /\ md_dir' = argv[2]
            /\ istdout' = Append(istdout,
                 "Reading material design icons/symbols from base directory " \o argv[2])
            /\ ipc' = "mkdir_icons"
            /\ UNCHANGED <<ierror, istatus>>
    /\ UNCHANGED <<rvars, cvars, gvars, argv, iphase, gi, ni, si, outfile, log>>

\* Line 33
MkdirIcons ==
    /\ ipc = "mkdir_icons" /\ iphase = "call"
    /\ StartRun("mkdir", "md-icons", MkdirIconsArgs)
    /\ UNCHANGED <<rvars, cvars, gvars, argv, md_dir, gi, ni, si, outfile, istdout>>

\* Line 34
MkdirSymbols ==
    /\ ipc = "mkdir_symbols" /\ iphase = "call"
    /\ StartRun("mkdir", "md-symbols", MkdirSymbolsArgs)
    /\ UNCHANGED <<rvars, cvars, gvars, argv, md_dir, gi, ni, si, outfile, istdout>>

\* Lines 36-49: the loop heads, outfile, args, subprocess.run(args)
IconConvert ==
    /\ ipc = "icon_convert" /\ iphase = "call"
    /\ LET group == ICONS[gi].group
           name  == ICONS[gi].icons[ni]
           out   == IconOutfile(name)
       IN /\ outfile' = out
          /\ StartRun("icon_convert", name, IconConvertArgs(md_dir, group, name, out))
    /\ UNCHANGED <<rvars, cvars, gvars, argv, md_dir, gi, ni, si, istdout>>

\* Line 50
IconMogrify ==
    /\ ipc = "icon_mogrify" /\ iphase = "call"
    /\ StartRun("icon_mogrify", ICONS[gi].icons[ni], MogrifyArgs(outfile))
    /\ UNCHANGED <<rvars, cvars, gvars, argv, md_dir, gi, ni, si, outfile, istdout>>

\* Lines 65-74
SymbolConvert ==
    /\ ipc = "symbol_convert" /\ iphase = "call"
    /\ LET symbol == SYMBOLS[si]
           out    == SymbolOutfile(symbol)
       IN /\ outfile' = out
          /\ StartRun("symbol_convert", symbol, SymbolConvertArgs(md_dir, symbol, out))
    /\ UNCHANGED <<rvars, cvars, gvars, argv, md_dir, gi, ni, si, istdout>>

\* Line 75
SymbolMogrify ==
    /\ ipc = "symbol_mogrify" /\ iphase = "call"
    /\ StartRun("symbol_mogrify", SYMBOLS[si], MogrifyArgs(outfile))
    /\ UNCHANGED <<rvars, cvars, gvars, argv, md_dir, gi, ni, si, outfile, istdout>>

\* An external command exits with some exit code.
ChildExit ==
    /\ \E k \in Running(log), rc \in ExitCodes :
          /\ rc # 0 => NumFailed(log) < MaxFailures
          /\ log' = [log EXCEPT ![k] = [@ EXCEPT !.status = "exited", !.rc = rc]]
    /\ UNCHANGED <<rvars, cvars, gvars, argv, md_dir, ipc, iphase, gi, ni, si, outfile, ierror, istatus, istdout>>

\* The control point after the statement at ipc, with the loop indices.
AfterStatement ==
    CASE ipc = "mkdir_icons" ->
           [pc |-> "mkdir_symbols", gi |-> gi, ni |-> ni, si |-> si]
      [] ipc = "mkdir_symbols" ->
           [pc |-> IF Len(ICONS) = 0 THEN "symbol_convert" ELSE "icon_convert",
            gi |-> gi, ni |-> ni, si |-> si]
      [] ipc = "icon_convert" ->
           [pc |-> "icon_mogrify", gi |-> gi, ni |-> ni, si |-> si]
      [] ipc = "icon_mogrify" ->
           IF ni < Len(ICONS[gi].icons)
           THEN [pc |-> "icon_convert", gi |-> gi, ni |-> ni + 1, si |-> si]
           ELSE IF gi < Len(ICONS)
           THEN [pc |-> "icon_convert", gi |-> gi + 1, ni |-> 1, si |-> si]
           ELSE [pc |-> IF Len(SYMBOLS) = 0 THEN "done" ELSE "symbol_convert",
                 gi |-> gi, ni |-> ni, si |-> si]
      [] ipc = "symbol_convert" ->
           [pc |-> "symbol_mogrify", gi |-> gi, ni |-> ni, si |-> si]
      [] ipc = "symbol_mogrify" ->
           IF si < Len(SYMBOLS)
           THEN [pc |-> "symbol_convert", gi |-> gi, ni |-> ni, si |-> si + 1]
           ELSE [pc |-> "done", gi |-> gi, ni |-> ni, si |-> si]

\* subprocess.run returns to the script, which goes on to the next statement.
RunReturn ==
    /\ iphase = "wait"
    /\ ipc \notin {"done", "failed"}
    /\ RunReturns(log)
    /\ LET exc == CheckReturnCode(Last(log).rc)
           nxt == AfterStatement
       IN IF exc # "none"
          THEN /\ Raise(exc)
               /\ UNCHANGED <<gi, ni, si>>
          ELSE /\ ipc' = nxt.pc
               /\ gi' = nxt.gi
               /\ ni' = nxt.ni
               /\ si' = nxt.si
               /\ istatus' = IF nxt.pc = "done" THEN "exit0" ELSE istatus
               /\ UNCHANGED ierror
    /\ iphase' = "call"
    /\ UNCHANGED <<rvars, cvars, gvars, argv, md_dir, outfile, log, istdout>>

NextIcons ==
    \/ ReadArgv
    \/ MkdirIcons
    \/ MkdirSymbols
    \/ IconConvert
    \/ IconMogrify
    \/ SymbolConvert
    \/ SymbolMogrify
    \/ ChildExit
    \/ RunReturn

SpecIcons == InitIcons /\ [][NextIcons]_vars

(***************************************************************************)
(*              Properties of generate-md-icons.py                         *)
(***************************************************************************)

Failed(l) == {k \in 1..Len(l) : l[k].status = "exited" /\ l[k].rc # 0}

Converts(l) == {k \in 1..Len(l) : l[k].kind \in {"icon_convert", "symbol_convert"}}

Mogrifies(l) == {k \in 1..Len(l) : l[k].kind \in {"icon_mogrify", "symbol_mogrify"}}

\* The configured entries, in the order of the two loops.
IconEntries ==
    UNION {{<<ICONS[i].group, ICONS[i].icons[j]>> : j \in 1..Len(ICONS[i].icons)} : i \in 1..Len(ICONS)}

SymbolEntries == {SYMBOLS[i] : i \in 1..Len(SYMBOLS)}

NumEntries == Cardinality(IconEntries) + Cardinality(SymbolEntries)

ConfiguredNames == {e[2] : e \in IconEntries} \cup SymbolEntries

\* The output paths written for a name: the last argument of every convert
\* and mogrify started for it.
WrittenFor(name) ==
    {Last(log[k].args) : k \in {j \in Converts(log) \cup Mogrifies(log) : log[j].name = name}}

\* C1 (as claimed): every failure, a failing convert/mogrify invocation
\* included, ends the script with a non-zero exit status, and no external
\* command is started after a failing one.
C1_FailurePropagates ==
    /\ \A k \in Failed(log) : k = Len(log)
    /\ (Failed(log) # {} /\ ipc \in {"done", "failed"}) => istatus = "exit1"

\* C1 (amended): only a missing positional argument (IndexError, before
\* any command) and an external command that cannot be started
\* (FileNotFoundError) end the script, with exit status 1 and no further
\* command; a non-zero exit code of mkdir, convert or mogrify is ignored:
\* the script goes on and a completed run exits 0.
C1_OnlySpawnAndArgvFailuresPropagate ==
    /\ [](/\ ierror \in {"none", "IndexError", "FileNotFoundError"}
          /\ ierror = "IndexError" => (log = <<>> /\ Len(argv) < 2)
          /\ (ierror # "none") <=> (ipc = "failed")
          /\ ipc = "failed" => (istatus = "exit1" /\ Running(log) = {})
          /\ ipc = "done" => (istatus = "exit0" /\ Len(log) = 2 + 2 * NumEntries)
          /\ Len(argv) < 2 => ipc \in {"argv", "failed"})
    /\ [][ipc = "failed" => (log' = log /\ ipc' = "failed" /\ istatus' = istatus)]_vars

C1_Witness ==
    /\ ipc = "done"
    /\ istatus = "exit0"
    /\ \E k \in Failed(log) : log[k].kind = "icon_convert"
    /\ \E k \in Failed(log) : log[k].kind = "symbol_mogrify"

\* C2 (as claimed): for every configured name exactly one output path is
\* written (at most one while the run is under way), and no two entries
\* write the same path.
C2_OnePathPerName ==
    /\ \A name \in ConfiguredNames : Cardinality(WrittenFor(name)) <= 1
    /\ ipc = "done" => \A name \in ConfiguredNames : Cardinality(WrittenFor(name)) = 1
    /\ \A j, k \in Converts(log) : j # k => Last(log[j].args) # Last(log[k].args)

\* C2 (amended): every configured entry (an icon of ICONS, a symbol of
\* SYMBOLS) writes exactly one output path, convert and mogrify of the entry
\* use the same path, and no two entries write the same path; a name
\* configured both as icon and as symbol (play_arrow, stop) has two output
\* files, one per directory.
C2_OnePathPerEntry ==
    /\ \A j, k \in Converts(log) : j # k => Last(log[j].args) # Last(log[k].args)
    /\ \A k \in Mogrifies(log) : Last(log[k].args) = Last(log[k - 1].args)
    /\ \A j, k \in Converts(log) : j # k => <<log[j].kind, log[j].name>> # <<log[k].kind, log[k].name>>
    /\ ipc = "done" =>
          /\ Cardinality({Last(log[k].args) : k \in Converts(log) \cup Mogrifies(log)}) = NumEntries
          /\ \A e \in IconEntries : \E k \in Converts(log) :
                log[k].kind = "icon_convert" /\ log[k].name = e[2]
          /\ \A s \in SymbolEntries : \E k \in Converts(log) :
                log[k].kind = "symbol_convert" /\ log[k].name = s
          /\ \A name \in ConfiguredNames :
                Cardinality(WrittenFor(name)) =
                   Cardinality({e \in IconEntries : e[2] = name}) +
                   Cardinality({s \in SymbolEntries : s = name})

C2_Witness ==
    /\ ipc = "done"
    /\ Cardinality(WrittenFor("play_arrow")) = 2
    /\ Cardinality(WrittenFor("pause")) = 1

\* C5: every convert reads the source path and writes the output path the
\* templates give for its entry, and the mogrify of an entry targets the
\* output path of the entry's convert.
ExpectedIconSource(g, n) == md_dir \o "/src/" \o g \o "/" \o n \o "/materialicons/24px.svg"

ExpectedSymbolSource(s) ==
    md_dir \o "/symbols/web/" \o s \o "/materialsymbolssharp/" \o s \o "_wght100_24px.svg"

C5_FixedPaths ==
    /\ \A k \in 1..Len(log) :
          /\ log[k].kind = "icon_convert" =>
                /\ \E e \in IconEntries :
                      /\ e[2] = log[k].name
                      /\ log[k].args[2] = ExpectedIconSource(e[1], e[2])
                /\ Last(log[k].args) = "res/images/md-icons/" \o log[k].name \o ".png"
          /\ log[k].kind = "symbol_convert" =>
                /\ log[k].name \in SymbolEntries
                /\ log[k].args[2] = ExpectedSymbolSource(log[k].name)
                /\ Last(log[k].args) = "res/images/md-symbols/" \o log[k].name \o ".png"
          /\ log[k].kind \in {"icon_mogrify", "symbol_mogrify"} =>
                /\ k > 1
                /\ log[k - 1].kind \in {"icon_convert", "symbol_convert"}
                /\ log[k - 1].name = log[k].name
                /\ log[k].args = <<"mogrify", "-strip", Last(log[k - 1].args)>>
    /\ ipc = "done" =>
          /\ \A e \in IconEntries : \E k \in 1..Len(log) :
                log[k].kind = "icon_convert" /\ log[k].args[2] = ExpectedIconSource(e[1], e[2])
          /\ \A s \in SymbolEntries : \E k \in 1..Len(log) :
                log[k].kind = "symbol_convert" /\ log[k].args[2] = ExpectedSymbolSource(s)

C5_Witness ==
    /\ ipc = "done"
    /\ md_dir = "/home/u/Downloads/material-design-icons"
    /\ \E k \in 1..Len(log) :
          log[k].args[2] = "/home/u/Downloads/material-design-icons/src/av/pause/materialicons/24px.svg"
    /\ Last(log).args = <<"mogrify", "-strip", "res/images/md-symbols/stop.png">>

\* The commands one complete run starts, in order.
RECURSIVE FlatIcons(_, _)
FlatIcons(i, j) ==
    IF i > Len(ICONS) THEN <<>>
    ELSE IF j > Len(ICONS[i].icons) THEN FlatIcons(i + 1, 1)
    ELSE <<"icon_convert:" \o ICONS[i].icons[j], "icon_mogrify:" \o ICONS[i].icons[j]>>
         \o FlatIcons(i, j + 1)

RECURSIVE FlatSymbols(_)
FlatSymbols(i) ==
    IF i > Len(SYMBOLS) THEN <<>>
    ELSE <<"symbol_convert:" \o SYMBOLS[i], "symbol_mogrify:" \o SYMBOLS[i]>> \o FlatSymbols(i + 1)

ExpectedOrder == <<"mkdir:md-icons", "mkdir:md-symbols">> \o FlatIcons(1, 1) \o FlatSymbols(1)

Started(l) == [k \in 1..Len(l) |-> l[k].kind \o ":" \o l[k].name]

\* C7: exit codes do not change what the script does: whatever the exit
\* codes, the commands started are a prefix of the one fixed order, the
\* script never ends because of an exit code and can always take its next
\* step until it is done, and a completed run has started every command.
C7_ExitCodesIgnored ==
    /\ ierror # "CalledProcessError"
    /\ Len(log) <= Len(ExpectedOrder)
    /\ Started(log) = SubSeq(ExpectedOrder, 1, Len(log))
    /\ (ipc = "failed" /\ ierror = "FileNotFoundError") => Running(log) = {}
    /\ ipc \notin {"done", "failed"} => ENABLED NextIcons
    /\ ipc = "done" => Started(log) = ExpectedOrder

C7_Witness ==
    /\ ipc = "icon_convert"
    /\ ni = 2
    /\ Failed(log) = {3, 4}
    /\ Len(log) = 4

\* C8: external commands run one at a time and none is repeated: both
\* mkdir calls have exited before the first convert starts, a mogrify
\* starts only after the convert of its entry, which directly precedes it,
\* has exited, at most one command is running, no entry gets a second
\* convert or mogrify, and a completed run gave every entry exactly one of
\* each.
C8_Sequential ==
    /\ Cardinality(Running(log)) <= 1
    /\ \A k \in 1..Len(log) : k < Len(log) => log[k].status = "exited"
    /\ \A k \in Converts(log) :
          /\ k > 2
          /\ log[1].args = <<"mkdir", "-p", "res/images/md-icons">>
          /\ log[2].args = <<"mkdir", "-p", "res/images/md-symbols">>
    /\ \A k \in Mogrifies(log) :
          /\ k - 1 \in Converts(log)
          /\ log[k - 1].name = log[k].name
          /\ log[k - 1].status = "exited"
    /\ \A j, k \in 1..Len(log) : j # k => log[j].args # log[k].args
    /\ \A j, k \in 1..Len(log) :
          j # k => <<log[j].kind, log[j].name>> # <<log[k].kind, log[k].name>>
    /\ ipc = "done" =>
          /\ Cardinality(Converts(log)) = NumEntries
          /\ Cardinality(Mogrifies(log)) = NumEntries
          /\ \A k \in Converts(log) : k + 1 \in Mogrifies(log)

C8_Witness ==
    /\ ipc = "symbol_mogrify"
    /\ iphase = "wait"
    /\ si = 3
    /\ Running(log) = {Len(log)}

(***************************************************************************)
(*                       sample-filenames.py                               *)
(***************************************************************************)

\* A file name is a sequence of characters.  The longest stem the
\* conversion is applied to:
MaxStemLen == 4

\* At most this many files in the current directory.
MaxFiles == 3

Letters == {"a", "B"}

Separators == {"-", ".", " ", "_"}

Alphabet == Letters \cup Separators

LowerOf == [c \in {"A", "B", "W", "V"} |-> CASE c = "A" -> "a" [] c = "B" -> "b"
                                             [] c = "W" -> "w" [] c = "V" -> "v"]

UpperOf == [c \in {"a", "b", "w", "v"} |-> CASE c = "a" -> "A" [] c = "b" -> "B"
                                             [] c = "w" -> "W" [] c = "v" -> "V"]

IsUpper(c) == c \in DOMAIN LowerOf

\* stringcase.lowercase / uppercase on one character: str.lower(), str.upper()
lowercase(c) == IF c \in DOMAIN LowerOf THEN LowerOf[c] ELSE c

uppercase(c) == IF c \in DOMAIN UpperOf THEN UpperOf[c] ELSE c

\* re.sub(r"[\-\.\s]", '_', string)
RECURSIVE SubSeparators(_)
SubSeparators(s) ==
    IF s = <<>> THEN <<>>
    ELSE <<IF Head(s) \in {"-", ".", " "} THEN "_" ELSE Head(s)>> \o SubSeparators(Tail(s))

\* re.sub(r"[A-Z]", lambda matched: '_' + lowercase(matched.group(0)), string)
RECURSIVE SubUpper(_)
SubUpper(s) ==
    IF s = <<>> THEN <<>>
    ELSE (IF IsUpper(Head(s)) THEN <<"_", lowercase(Head(s))>> ELSE <<Head(s)>>)
         \o SubUpper(Tail(s))

\* stringcase.snakecase
snakecase(string) ==
    LET s == SubSeparators(string)
    IN IF s = <<>> THEN s ELSE <<lowercase(Head(s))>> \o SubUpper(Tail(s))

\* re.sub(r"_", "-", string)
RECURSIVE SubUnderscore(_)
SubUnderscore(s) ==
    IF s = <<>> THEN <<>>
    ELSE <<IF Head(s) = "_" THEN "-" ELSE Head(s)>> \o SubUnderscore(Tail(s))

\* stringcase.spinalcase
spinalcase(string) == SubUnderscore(snakecase(string))

\* str.replace("--", "-"): one pass, left to right, over non-overlapping
\* occurrences
RECURSIVE ReplaceDashes(_)
ReplaceDashes(s) ==
    IF Len(s) < 2 THEN s
    ELSE IF s[1] = "-" /\ s[2] = "-" THEN <<"-">> \o ReplaceDashes(SubSeq(s, 3, Len(s)))
    ELSE <<Head(s)>> \o ReplaceDashes(Tail(s))

\* str.split("_")
RECURSIVE SplitUnderscore(_, _)
SplitUnderscore(s, word) ==
    IF s = <<>> THEN <<word>>
    ELSE IF Head(s) = "_" THEN <<word>> \o SplitUnderscore(Tail(s), <<>>)
    ELSE SplitUnderscore(Tail(s), Append(word, Head(s)))

\* stringcase.capitalcase
capitalcase(string) ==
    IF string = <<>> THEN string ELSE <<uppercase(Head(string))>> \o Tail(string)

\* ' '.join(words)
RECURSIVE JoinSpace(_)
JoinSpace(words) ==
    IF words = <<>> THEN <<>>
    ELSE IF Len(words) = 1 THEN Head(words)
    ELSE Head(words) \o <<" ">> \o JoinSpace(Tail(words))

\* stringcase.titlecase
titlecase(string) ==
    LET words == SplitUnderscore(snakecase(string), <<>>)
    IN JoinSpace([k \in 1..Len(words) |-> capitalcase(words[k])])

\* Line 11
SpinalName(st) == ReplaceDashes(spinalcase(st))

\* Line 12; name[0] raises IndexError on the empty string
CanCapitalise(name) == name # <<>>

Capitalised(name) == titlecase(<<name[1]>>) \o Tail(name)

\* file.endswith(".WAV")
EndsWithWAV(file) ==
    Len(file) >= 4 /\ SubSeq(file, Len(file) - 3, Len(file)) = <<".", "W", "A", "V">>

\* file[:-4]
Stem(file) == SubSeq(file, 1, Len(file) - 4)

WAV == <<".", "W", "A", "V">>

\* File names the current directory may hold.
FileUniverse ==
    { WAV,
      <<"a">> \o WAV,
      <<"a", "B">> \o WAV,
      <<"a", " ", "-", "B">> \o WAV,
      <<"a", ".", "w", "a", "v">>,
      <<"W", "A", "V">>,
      <<"a">> \o WAV \o <<".", "b">> }

\* The orders in which os.listdir may return the names of a directory.
Listings(dir) ==
    {f \in [1..Cardinality(dir) -> dir] : \A i, j \in 1..Cardinality(dir) : i # j => f[i] # f[j]}

Line(kind, names, new, old) == [kind |-> kind, names |-> names, new |-> new, old |-> old]

InitRenamer ==
    /\ cwd \in {d \in SUBSET FileUniverse : Cardinality(d) <= MaxFiles}
    /\ files = <<>>
    /\ rpc = "listdir"
    /\ ri = 1
    /\ rstdout = <<>>
    /\ rerror = "none"
    /\ IdleIcons
    /\ IdleConvert
    /\ IdleColors

\* Line 6: files = os.listdir(".")
ListDir ==
    /\ rpc = "listdir"
    /\ files' \in Listings(cwd)
    /\ rpc' = "print_files"
    /\ UNCHANGED <<ivars, cvars, gvars, cwd, ri, rstdout, rerror>>

\* Line 7: print(files)
PrintFiles ==
    /\ rpc = "print_files"
    /\ rstdout' = Append(rstdout, Line("list", files, <<>>, <<>>))
    /\ rpc' = IF files = <<>> THEN "done" ELSE "loop"
    /\ UNCHANGED <<ivars, cvars, gvars, cwd, files, ri, rerror>>

AfterFile == IF ri < Len(files) THEN "loop" ELSE "done"

\* Lines 9-10, a file without the suffix
SkipFile ==
    /\ rpc = "loop"
    /\ ~EndsWithWAV(files[ri])
    /\ ri' = IF ri < Len(files) THEN ri + 1 ELSE ri
    /\ rpc' = AfterFile
    /\ UNCHANGED <<ivars, cvars, gvars, cwd, files, rstdout, rerror>>

\* Lines 9-13, a file with the suffix
ProposeName ==
    /\ rpc = "loop"
    /\ EndsWithWAV(files[ri])
    /\ LET name == SpinalName(Stem(files[ri]))
       IN IF CanCapitalise(name)
          THEN /\ rstdout' = Append(rstdout, Line("pair", <<>>, Capitalised(name), files[ri]))
               /\ ri' = IF ri < Len(files) THEN ri + 1 ELSE ri
               /\ rpc' = AfterFile
               /\ UNCHANGED rerror
          ELSE /\ rerror' = "IndexError"
               /\ rpc' = "failed"
               /\ UNCHANGED <<rstdout, ri>>
    /\ UNCHANGED <<ivars, cvars, gvars, cwd, files>>

NextRenamer ==
    \/ ListDir
    \/ PrintFiles
    \/ SkipFile
    \/ ProposeName

SpecRenamer == InitRenamer /\ [][NextRenamer]_vars

(***************************************************************************)
(*     The conversion of lines 11-12 applied to its own result             *)
(***************************************************************************)

RECURSIVE StringsUpTo(_)
StringsUpTo(n) ==
    IF n = 0 THEN {<<>>}
    ELSE LET shorter == StringsUpTo(n - 1)
         IN shorter \cup {Append(s, c) : s \in {t \in shorter : Len(t) = n - 1}, c \in Alphabet}

InitConvert ==
    /\ stem \in StringsUpTo(MaxStemLen)
    /\ once = <<>>
    /\ twice = <<>>
    /\ cpc = "start"
    /\ IdleIcons
    /\ IdleRenamer
    /\ IdleColors

\* Lines 11-12 on stem
ConvertFirst ==
    /\ cpc = "start"
    /\ LET name == SpinalName(stem)
       IN IF CanCapitalise(name)
          THEN once' = Capitalised(name) /\ cpc' = "first"
          ELSE once' = once /\ cpc' = "failed"
    /\ UNCHANGED <<ivars, rvars, gvars, stem, twice>>

\* Lines 11-12 on the converted name
ConvertSecond ==
    /\ cpc = "first"
    /\ LET name == SpinalName(once)
       IN IF CanCapitalise(name)
          THEN twice' = Capitalised(name) /\ cpc' = "second"
          ELSE twice' = twice /\ cpc' = "failed"
    /\ UNCHANGED <<ivars, rvars, gvars, stem, once>>

NextConvert ==
    \/ ConvertFirst
    \/ ConvertSecond

SpecConvert == InitConvert /\ [][NextConvert]_vars

(***************************************************************************)
(*               Properties of sample-filenames.py                         *)
(***************************************************************************)

WavFiles(fs) == {k \in 1..Len(fs) : EndsWithWAV(fs[k])}

Pairs(out) == {k \in 1..Len(out) : out[k].kind = "pair"}

\* C4: when the script has ended, the directory holds what it held before
\* (no action changes cwd, which no line of the script writes), no
\* exception ended it and its output is the listing followed by one
\* (new name, old name) pair per file whose name ends in ".WAV".
C4_OnlyPrintsOnePairPerWav ==
    rpc \in {"done", "failed"} =>
        /\ rerror = "none"
        /\ cwd = {files[k] : k \in 1..Len(files)}
        /\ Cardinality(Pairs(rstdout)) = Cardinality(WavFiles(files))
        /\ \A k \in WavFiles(files) : \E j \in Pairs(rstdout) : rstdout[j].old = files[k]

\* C6: the conversion is idempotent: converting a converted name gives the
\* same name.
C6_ConvertIdempotent == cpc = "second" => twice = once

(***************************************************************************)
(*                       color-generator.py                                *)
(*                                                                         *)
(* Python floats are IEEE-754 doubles, and int(r * 255.0) depends on their *)
(* rounding (Yellow is 254,255,153: the exact product would be 255), so    *)
(* the arithmetic is modelled bit for bit.  A double is                    *)
(* [s, m, e] = s * m * 2^e with s in {1, -1} and m a natural number of at  *)
(* most 53 bits, held as its digits in base 2^15, lowest first (<<>> is    *)
(* 0).  Every operation computes the exact result and rounds it to 53 bits,*)
(* to nearest, ties to even.  No value of the script is near the overflow  *)
(* or the subnormal range.                                                 *)
(***************************************************************************)

Base == 2^15

Min(a, b) == IF a < b THEN a ELSE b

RECURSIVE Norm(_)
Norm(a) == IF a = <<>> \/ a[Len(a)] # 0 THEN a ELSE Norm(SubSeq(a, 1, Len(a) - 1))

RECURSIVE AddC(_, _, _)
AddC(a, b, c) ==
    IF a = <<>> /\ b = <<>> THEN (IF c = 0 THEN <<>> ELSE <<c>>)
    ELSE LET x == (IF a = <<>> THEN 0 ELSE Head(a)) + (IF b = <<>> THEN 0 ELSE Head(b)) + c
         IN <<x % Base>> \o AddC(IF a = <<>> THEN a ELSE Tail(a),
                                 IF b = <<>> THEN b ELSE Tail(b), x \div Base)

AddB(a, b) == AddC(a, b, 0)

\* a - b for a >= b
RECURSIVE SubC(_, _, _)
SubC(a, b, c) ==
    IF a = <<>> THEN <<>>
    ELSE LET x == Head(a) - (IF b = <<>> THEN 0 ELSE Head(b)) - c
         IN <<IF x < 0 THEN x + Base ELSE x>>
            \o SubC(Tail(a), IF b = <<>> THEN b ELSE Tail(b), IF x < 0 THEN 1 ELSE 0)

SubB(a, b) == Norm(SubC(a, b, 0))

\* -1, 0, 1 as a < b, a = b, a > b
RECURSIVE CmpB(_, _)
CmpB(a, b) ==
    IF Len(a) # Len(b) THEN (IF Len(a) < Len(b) THEN -1 ELSE 1)
    ELSE IF a = <<>> THEN 0
    ELSE IF a[Len(a)] # b[Len(b)] THEN (IF a[Len(a)] < b[Len(b)] THEN -1 ELSE 1)
    ELSE CmpB(SubSeq(a, 1, Len(a) - 1), SubSeq(b, 1, Len(b) - 1))

RECURSIVE MulC(_, _, _)
MulC(a, k, c) ==
    IF a = <<>> THEN (IF c = 0 THEN <<>> ELSE <<c>>)
    ELSE LET x == Head(a) * k + c
         IN <<x % Base>> \o MulC(Tail(a), k, x \div Base)

\* a * k for a digit k
MulSmall(a, k) == Norm(MulC(a, k, 0))

RECURSIVE MulB(_, _)
MulB(a, b) ==
    IF b = <<>> THEN <<>>
    ELSE LET rest == MulB(a, Tail(b))
         IN AddB(MulSmall(a, Head(b)), IF rest = <<>> THEN <<>> ELSE <<0>> \o rest)

\* a divided by a digit d, from the top digit down, r the remainder so far
RECURSIVE DivC(_, _, _)
DivC(a, d, r) ==
    IF a = <<>> THEN [q |-> <<>>, r |-> r]
    ELSE LET x   == r * Base + a[Len(a)]
             low == DivC(SubSeq(a, 1, Len(a) - 1), d, x % d)
         IN [q |-> Append(low.q, x \div d), r |-> low.r]

DivSmall(a, d) == LET qr == DivC(a, d, 0) IN [q |-> Norm(qr.q), r |-> qr.r]

\* a * 2^n
Shl(a, n) ==
    IF a = <<>> THEN <<>>
    ELSE [i \in 1..(n \div 15) |-> 0] \o MulSmall(a, 2^(n % 15))

\* a \div 2^n
Shr(a, n) ==
    IF Len(a) <= n \div 15 THEN <<>>
    ELSE DivSmall(SubSeq(a, (n \div 15) + 1, Len(a)), 2^(n % 15)).q

\* the n lowest bits of a are 0
LowZero(a, n) ==
    /\ \A i \in 1..Min(Len(a), n \div 15) : a[i] = 0
    /\ Len(a) > n \div 15 => a[(n \div 15) + 1] % (2^(n % 15)) = 0

RECURSIVE DigitBits(_)
DigitBits(d) == IF d = 0 THEN 0 ELSE 1 + DigitBits(d \div 2)

BitLen(a) == IF a = <<>> THEN 0 ELSE 15 * (Len(a) - 1) + DigitBits(a[Len(a)])

\* bit i of a, the lowest being bit 0
Bit(a, i) == IF i \div 15 >= Len(a) THEN 0 ELSE (a[(i \div 15) + 1] \div (2^(i % 15))) % 2

DigitsOf(n) == Norm(<<n % Base, n \div Base>>)

IntOf(a) == (IF Len(a) > 0 THEN a[1] ELSE 0) + Base * (IF Len(a) > 1 THEN a[2] ELSE 0)

Float(s, m, e) == [s |-> s, m |-> m, e |-> e]

Bignums == Seq(0..(Base - 1))

Floats == [s : {1, -1}, m : Bignums, e : Int]

\* s * m * 2^e rounded to a double
RoundAt[x \in Floats] ==
    LET n == BitLen(x.m)
    IN IF n <= 53 THEN x
       ELSE LET sh   == n - 53
                q    == Shr(x.m, sh)
                half == Bit(x.m, sh - 1) = 1
                rest == ~LowZero(x.m, sh - 1)
                up   == half /\ (rest \/ Bit(q, 0) = 1)
            IN Float(x.s, IF up THEN AddB(q, <<1>>) ELSE q, x.e + sh)

Round(s, m, e) == RoundAt[Float(s, m, e)]

FZero == Float(1, <<>>, 0)

\* float(n) for a small natural number n
FromInt(n) == Float(1, DigitsOf(n), 0)

\* n / d in Python for natural numbers n, d below 2^15, and the decimal
\* literals: 0.299 is FromRatio(299, 1000).  The quotient keeps 75 binary
\* places and one more bit that says whether a remainder is left.
FromRatioAt[p \in Nat \X Nat] ==
    IF p[1] = 0 THEN FZero
    ELSE LET qr == DivSmall(Shl(<<p[1]>>, 75), p[2])
         IN Round(1, AddB(MulSmall(qr.q, 2), IF qr.r # 0 THEN <<1>> ELSE <<>>), -76)

FromRatio(n, d) == FromRatioAt[<<n, d>>]

FNegAt[x \in Floats] == Float(-x.s, x.m, x.e)

FNeg(x) == FNegAt[x]

\* x + y.  As in Python the operands are values: they are computed once,
\* before the operation.
FAddAt[p \in Floats \X Floats] ==
    LET x == p[1]
        y == p[2]
    IN IF x.m = <<>> THEN y
       ELSE IF y.m = <<>> THEN x
       ELSE LET e == Min(x.e, y.e)
                a == Shl(x.m, x.e - e)
                b == Shl(y.m, y.e - e)
                c == CmpB(a, b)
            IN IF x.s = y.s THEN Round(x.s, AddB(a, b), e)
               ELSE IF c = 0 THEN FZero
               ELSE IF c > 0 THEN Round(x.s, SubB(a, b), e)
               ELSE Round(y.s, SubB(b, a), e)

FAdd(x, y) == FAddAt[<<x, y>>]

FSub(x, y) == FAdd(x, FNeg(y))

FMulAt[p \in Floats \X Floats] ==
    LET x == p[1]
        y == p[2]
    IN IF x.m = <<>> \/ y.m = <<>> THEN FZero
       ELSE Round(x.s * y.s, MulB(x.m, y.m), x.e + y.e)

FMul(x, y) == FMulAt[<<x, y>>]

\* x < y: the rounded difference has the sign of the exact one
IsNegative[d \in Floats] == d.m # <<>> /\ d.s = -1

FLt(x, y) == IsNegative[FSub(x, y)]

FLe(x, y) == ~FLt(y, x)

\* |x| - floor(|x|), which is exact
Frac[x \in Floats] ==
    IF x.e >= 0 THEN FZero
    ELSE Float(1, SubB(x.m, Shl(Shr(x.m, -x.e), -x.e)), x.e)

\* x % 1.0: fmod(x, 1.0), plus 1.0 when that is negative
FMod1At[x \in Floats] ==
    IF x.s = 1 \/ Frac[x].m = <<>> THEN Frac[x] ELSE FAdd(FNeg(Frac[x]), FromInt(1))

FMod1(x) == FMod1At[x]

\* int(x): towards zero
FIntAt[x \in Floats] == x.s * IntOf(IF x.e < 0 THEN Shr(x.m, -x.e) ELSE Shl(x.m, x.e))

FInt(x) == FIntAt[x]

ONE_THIRD == FromRatio(1, 3)

ONE_SIXTH == FromRatio(1, 6)

TWO_THIRD == FromRatio(2, 3)

\* colorsys._v after hue = hue % 1.0; p is <<m1, m2, hue>>
HlsRamp[p \in Floats \X Floats \X Floats] ==
    LET m1  == p[1]
        m2  == p[2]
        hue == p[3]
    IN IF FLt(hue, ONE_SIXTH)
       THEN FAdd(m1, FMul(FMul(FSub(m2, m1), hue), FromInt(6)))
       ELSE IF FLt(hue, FromRatio(1, 2))
       THEN m2
       ELSE IF FLt(hue, TWO_THIRD)
       THEN FAdd(m1, FMul(FMul(FSub(m2, m1), FSub(TWO_THIRD, hue)), FromInt(6)))
       ELSE m1

\* colorsys._v
HlsV(m1, m2, hue) == HlsRamp[<<m1, m2, FMod1(hue)>>]

\* colorsys.hls_to_rgb after m1 and m2 are computed; p is <<h, m1, m2>>
HlsChannels[p \in Floats \X Floats \X Floats] ==
    <<HlsV(p[2], p[3], FAdd(p[1], ONE_THIRD)),
      HlsV(p[2], p[3], p[1]),
      HlsV(p[2], p[3], FSub(p[1], ONE_THIRD))>>

\* colorsys.hls_to_rgb after m2 is computed; p is <<h, l, m2>>
HlsFromM2[p \in Floats \X Floats \X Floats] ==
    HlsChannels[<<p[1], FSub(FMul(FromInt(2), p[2]), p[3]), p[3]>>]

\* colorsys.hls_to_rgb; p is <<h, l, s>>
HlsToRgbAt[p \in Floats \X Floats \X Floats] ==
    LET h == p[1]
        l == p[2]
        s == p[3]
    IN IF s.m = <<>> THEN <<l, l, l>>
       ELSE HlsFromM2[<<h, l, IF FLe(l, FromRatio(1, 2))
                              THEN FMul(l, FAdd(FromInt(1), s))
                              ELSE FSub(FAdd(l, s), FMul(l, s))>>]

hls_to_rgb(h, l, s) == HlsToRgbAt[<<h, l, s>>]

HUE_NAMES ==
    << "Red", "Prysa", "Zarqa", "Pengwin", "Vermilion", "Colyw", "Haha", "Gabby",
       "Orange", "Winter", "Sharasha", "Buzz", "Amber", "Builder", "Lekko", "Villager",
       "Yellow", "Yolett", "Lemon", "Burton", "Lime", "Sprite", "Jay", "Robin",
       "Chartreuse", "Misho", "Ggahhal", "Evbo", "Ddahal", "Swimsuit", "Medu", "Pearlike",
       "Green", "Lively", "Cypher", "Veh", "Erin", "Erus", "Jus", "Emeraldstar",
       "Spring", "Gold", "Mool", "Diamond", "Gashyanta", "Yreli", "Uroz", "Bobi",
       "Cyan", "Feil", "Zinor", "Twits", "Capri", "Iapion", "Uzor", "Underwater",
       "Azure", "Wet", "Zinoret", "Harza", "Cerulean", "Doto", "Zarqaret", "Gloomy",
       "Blue", "Rarity", "Linel", "Fluttershy", "Volta", "Over", "Kyryn", "Smot",
       "Violet", "Twilight", "Zinur", "Chwarae", "Llew", "Howl", "Kyrene", "Skelato",
       "Magenta", "Kirpan", "Hung", "Minkraf", "Cerise", "Wooder", "Loo", "Jerin",
       "Rose", "Hesonbwon", "Jerry", "Fasha", "Crimson", "Rara", "Khwarezmian", "Tata" >>

HexDigits == <<"0", "1", "2", "3", "4", "5", "6", "7", "8", "9", "a", "b", "c", "d", "e", "f">>

RECURSIVE Hex(_)
Hex(n) == IF n < 16 THEN <<HexDigits[n + 1]>> ELSE Append(Hex(n \div 16), HexDigits[(n % 16) + 1])

\* f"{n:02x}" for n >= 0: at least two hex digits
Hex02(n) == IF n < 16 THEN <<"0">> \o Hex(n) ELSE Hex(n)

DecDigits == <<"0", "1", "2", "3", "4", "5", "6", "7", "8", "9">>

\* f"Gray{count}" for a count of one digit
GrayName(n) == "Gray" \o DecDigits[n + 1]

\* int(x * 256.0)
ToByte256(x) == FInt(FMul(x, FromInt(256)))

\* int(x * 255.0), lines 109-111
ToByte(x) == FInt(FMul(x, FromInt(255)))

\* r * 0.299 + g * 0.587 + b * .114, line 113
DarknessAt[c \in Int \X Int \X Int] ==
    FAdd(FAdd(FMul(FromInt(c[1]), FromRatio(299, 1000)), FMul(FromInt(c[2]), FromRatio(587, 1000))),
         FMul(FromInt(c[3]), FromRatio(114, 1000)))

Darkness(r, g, b) == DarknessAt[<<r, g, b>>]

\* Lines 112-115 for the integers r, g, b of lines 109-111
ColorRecord[c \in STRING \X Int \X Int \X Int] ==
    [r |-> c[2], g |-> c[3], b |-> c[4], rgb |-> Hex02(c[2]) \o Hex02(c[3]) \o Hex02(c[4]),
     name |-> c[1], darkness |-> Darkness(c[2], c[3], c[4])]

\* The record add_to_accepted appends, lines 108-115
add_to_accepted(name, r, g, b) == ColorRecord[<<name, ToByte(r), ToByte(g), ToByte(b)>>]

\* hls_to_rgb and add_to_accepted of one color: lines 123-124 and 132-133
NewColor[p \in STRING \X (Floats \X Floats \X Floats)] ==
    add_to_accepted(p[1], p[2][1], p[2][2], p[2][3])

\* if darkness < 150 with the branches exchanged
ClassifyInverted(darkness) ==
    IF FLt(darkness, FromInt(150))
    THEN [css_class |-> "light", is_dark |-> "BLACK"]
    ELSE [css_class |-> "dark", is_dark |-> "WHITE"]

\* Lines 154-159
Classify(darkness) ==
    IF FLt(darkness, FromInt(150))
    THEN [css_class |-> "dark", is_dark |-> "WHITE"]
    ELSE [css_class |-> "light", is_dark |-> "BLACK"]

Tag(t) == [t |-> "tag", v |-> t]

Text(v) == [t |-> "text", v |-> v]

StyleText ==
    "body {font: 16px Helvetica Neue, sans-serif;} td {padding: 4px} .dark {color: white} .light {color: black}"

\* The line printed at lines 136-137
DocumentHead ==
    <<Tag("<html>"), Tag("<head>"), Tag("<style>"), Text(StyleText), Tag("</style>"),
      Tag("</head>"), Tag("<body>")>>

InitColors ==
    /\ accepted_colors = <<>>
    /\ gpc = "hues"
    /\ count = 0
    /\ gray = 0
    /\ ac = 1
    /\ code = <<>>
    /\ gstdout = <<>>
    /\ IdleIcons
    /\ IdleRenamer
    /\ IdleConvert

AfterHue == IF count + 1 < Len(HUE_NAMES) THEN "hues" ELSE "grays"

\* Lines 119-121: an entry of HUE_NAMES that is skipped
SkipHue ==
    /\ gpc = "hues"
    /\ count % 4 # 0
    /\ count' = IF AfterHue = "hues" THEN count + 1 ELSE 1
    /\ gpc' = AfterHue
    /\ UNCHANGED <<ivars, rvars, cvars, accepted_colors, gray, ac, code, gstdout>>

\* Lines 119-124: every fourth entry of HUE_NAMES
AddHue ==
    /\ gpc = "hues"
    /\ count % 4 = 0
    /\ LET hue == FromRatio(count, Len(HUE_NAMES))
           rgb == hls_to_rgb(hue, FromRatio(8, 10), FromInt(1))
       IN accepted_colors' = Append(accepted_colors, NewColor[<<HUE_NAMES[count + 1], rgb>>])
    /\ count' = IF AfterHue = "hues" THEN count + 1 ELSE 1
    /\ gpc' = AfterHue
    /\ UNCHANGED <<ivars, rvars, cvars, gray, ac, code, gstdout>>

\* Lines 127-134: for hue in range(0, 256, 32)
AddGray ==
    /\ gpc = "grays"
    /\ LET darkness   == FromRatio(gray, 255)
           hue        == FZero
           saturation == FZero
           rgb        == hls_to_rgb(hue, darkness, saturation)
       IN accepted_colors' = Append(accepted_colors, NewColor[<<GrayName(count), rgb>>])
    /\ count' = count + 1
    /\ gray' = IF gray + 32 < 256 THEN gray + 32 ELSE gray
    /\ gpc' = IF gray + 32 < 256 THEN "grays" ELSE "head1"
    /\ UNCHANGED <<ivars, rvars, cvars, ac, code, gstdout>>

\* Lines 136-139
PrintHead1 ==
    /\ gpc = "head1"
    /\ gstdout' = Append(gstdout, DocumentHead)
    /\ code' = <<>>
    /\ ac' = 1
    /\ gpc' = IF accepted_colors = <<>> THEN "enum" ELSE "names"
    /\ UNCHANGED <<ivars, rvars, cvars, accepted_colors, count, gray>>

\* Lines 140-141: code += ac["name"] + ",\r\n"
AppendName ==
    /\ gpc = "names"
    /\ code' = Append(code, [name |-> accepted_colors[ac].name])
    /\ ac' = IF ac < Len(accepted_colors) THEN ac + 1 ELSE ac
    /\ gpc' = IF ac < Len(accepted_colors) THEN "names" ELSE "enum"
    /\ UNCHANGED <<ivars, rvars, cvars, accepted_colors, count, gray, gstdout>>

\* Line 142
PrintEnum ==
    /\ gpc = "enum"
    /\ gstdout' = Append(gstdout,
          <<Tag("<pre>"), Text("enum PatternColorScheme {"), Text(code), Text("}"), Tag("</pre>")>>)
    /\ gpc' = "head2"
    /\ UNCHANGED <<ivars, rvars, cvars, accepted_colors, count, gray, ac, code>>

\* Lines 144-146
PrintHead2 ==
    /\ gpc = "head2"
    /\ gstdout' = Append(gstdout, DocumentHead \o <<Tag("<table>")>>)
    /\ code' = <<>>
    /\ ac' = 1
    /\ gpc' = IF accepted_colors = <<>> THEN "table_end" ELSE "rows"
    /\ UNCHANGED <<ivars, rvars, cvars, accepted_colors, count, gray>>

\* Lines 147-162
PrintRow ==
    /\ gpc = "rows"
    /\ LET c   == accepted_colors[ac]
           cls == Classify(c.darkness)
       IN /\ gstdout' = Append(gstdout,
                <<Tag("<tr>"),
                  [t |-> "td", v |-> [class |-> cls.css_class, background |-> c.rgb]],
                  Text([name |-> c.name, rgb |-> c.rgb]),
                  Tag("</td>"), Tag("</tr>")>>)
          /\ code' = Append(code, [name |-> c.name, foreground |-> cls.is_dark,
                                   r |-> c.r, g |-> c.g, b |-> c.b])
    /\ ac' = IF ac < Len(accepted_colors) THEN ac + 1 ELSE ac
    /\ gpc' = IF ac < Len(accepted_colors) THEN "rows" ELSE "table_end"
    /\ UNCHANGED <<ivars, rvars, cvars, accepted_colors, count, gray>>

\* Line 163
PrintTableEnd ==
    /\ gpc = "table_end"
    /\ gstdout' = Append(gstdout, <<Tag("</table>"), Tag("<pre>"), Text(code), Tag("</pre>")>>)
    /\ gpc' = "end"
    /\ UNCHANGED <<ivars, rvars, cvars, accepted_colors, count, gray, ac, code>>

\* Line 165
PrintEnd ==
    /\ gpc = "end"
    /\ gstdout' = Append(gstdout, <<Tag("</body>"), Tag("</html>")>>)
    /\ gpc' = "done"
    /\ UNCHANGED <<ivars, rvars, cvars, accepted_colors, count, gray, ac, code>>

NextColors ==
    \/ SkipHue
    \/ AddHue
    \/ AddGray
    \/ PrintHead1
    \/ AppendName
    \/ PrintEnum
    \/ PrintHead2
    \/ PrintRow
    \/ PrintTableEnd
    \/ PrintEnd

SpecColors == InitColors /\ [][NextColors]_vars

(***************************************************************************)
(*               Properties of color-generator.py                          *)
(***************************************************************************)

RECURSIVE Flatten(_)
Flatten(lines) == IF lines = <<>> THEN <<>> ELSE Head(lines) \o Flatten(Tail(lines))

IsOneOf(tok, tags) == tok.t = "tag" /\ tok.v \in tags

\* The tags of the output among `tags`, in the order printed.
TagsPrinted(tags) ==
    LET keep == SelectSeq(Flatten(gstdout), LAMBDA tok : IsOneOf(tok, tags))
    IN [k \in 1..Len(keep) |-> keep[k].v]

Alternates(seq, open, close) ==
    \A k \in 1..Len(seq) : seq[k] = IF k % 2 = 1 THEN open ELSE close

\* C3: the output is two HTML documents one after the other: a document is
\* opened (<html> ... <body>) only when none is open, and the complete
\* output holds two openings, each closed by </body></html>.
C3_TwoClosedDocuments ==
    /\ Alternates(TagsPrinted({"<html>", "</html>"}), "<html>", "</html>")
    /\ Alternates(TagsPrinted({"<body>", "</body>"}), "<body>", "</body>")
    /\ gpc = "done" =>
          /\ TagsPrinted({"<html>", "</html>"}) = <<"<html>", "</html>", "<html>", "</html>">>
          /\ TagsPrinted({"<body>", "</body>"}) = <<"<body>", "</body>", "<body>", "</body>">>

HexChars == {HexDigits[k] : k \in 1..Len(HexDigits)}

Generated == gpc \notin {"idle", "hues", "grays"}

\* C9: every record of accepted_colors has integers r, g, b in 0..255 and
\* an rgb string of exactly six hex digits; once both loops have run the
\* records are those of every fourth entry of HUE_NAMES, then Gray1..Gray8.
C9_ChannelsAreBytes ==
    /\ \A k \in 1..Len(accepted_colors) :
          LET c == accepted_colors[k]
          IN /\ c.r \in 0..255 /\ c.g \in 0..255 /\ c.b \in 0..255
             /\ Len(c.rgb) = 6
             /\ \A i \in 1..Len(c.rgb) : c.rgb[i] \in HexChars
             /\ k <= Len(HUE_NAMES) \div 4 => c.name = HUE_NAMES[4 * (k - 1) + 1]
             /\ k > Len(HUE_NAMES) \div 4 =>
                   c.name = <<"Gray1", "Gray2", "Gray3", "Gray4",
                              "Gray5", "Gray6", "Gray7", "Gray8">>[k - Len(HUE_NAMES) \div 4]
    /\ Generated => Len(accepted_colors) = Len(HUE_NAMES) \div 4 + 8

C9_Witness ==
    /\ gpc = "head1"
    /\ Len(accepted_colors) = 32
    /\ accepted_colors[1].rgb = <<"f", "f", "9", "9", "9", "9">>
    /\ accepted_colors[5].name = "Yellow" /\ accepted_colors[5].r = 254
    /\ accepted_colors[25].rgb = <<"0", "0", "0", "0", "0", "0">>
    /\ accepted_colors[32].name = "Gray8" /\ accepted_colors[32].b = 224

\* The table rows printed so far.
Rows == SelectSeq(gstdout, LAMBDA line : IsOneOf(line[1], {"<tr>"}))

RowClass(k) == Rows[k][2].v.class

\* 1000 times the weighted sum 0.299 r + 0.587 g + 0.114 b, exactly
Luminance1000(c) == 299 * c.r + 587 * c.g + 114 * c.b

\* C10: the classification is a threshold on the computed luminance: a
\* record is "dark" exactly when its darkness is below 150 and "light"
\* otherwise, so a record at least as luminous as a "light" one is
\* "light"; css_class and the Color32 foreground agree (dark with WHITE,
\* light with BLACK).
C10_ThresholdOnLuminance ==
    /\ \A k \in 1..Len(Rows) :
          LET c == accepted_colors[k]
          IN /\ RowClass(k) \in {"dark", "light"}
             /\ RowClass(k) = "dark" <=> FLt(c.darkness, FromInt(150))
             /\ RowClass(k) = "dark" <=> Luminance1000(c) < 150000
             /\ c.darkness = Darkness(c.r, c.g, c.b)
             /\ code[k].name = c.name
             /\ code[k].foreground = IF RowClass(k) = "dark" THEN "WHITE" ELSE "BLACK"
    /\ \A j, k \in 1..Len(Rows) :
          (FLe(accepted_colors[j].darkness, accepted_colors[k].darkness) /\ RowClass(j) = "light")
             => RowClass(k) = "light"
    /\ gpc \in {"table_end", "end", "done"} => Len(Rows) = Len(accepted_colors)

C10_Witness ==
    /\ gpc = "done"
    /\ Len(Rows) = 32
    /\ RowClass(1) = "light" /\ code[1].foreground = "BLACK"
    /\ RowClass(29) = "dark" /\ code[29].foreground = "WHITE"
    /\ RowClass(30) = "light"

=============================================================================
